---- MODULE Spec2Model ----
(***************************************************************************)
(* A model of the thirtyfour convenience layer: WebDriver (webdriver.rs),  *)
(* WebElement (webelement.rs) and ScriptRet (session/scriptret.rs).        *)
(*                                                                         *)
(* The layer holds no state of its own beyond the values it hands out      *)
(* (WebDriver, SessionHandle clones, WebElement, ScriptRet).  Every method *)
(* is modelled as an operator that, given the responses of the underlying  *)
(* protocol client, yields the commands it issues and the value it         *)
(* returns.  The underlying client and the browser are the environment:    *)
(* their responses are drawn from the outcomes the remote end can give for *)
(* the element's current remote status.                                    *)
(***************************************************************************)
EXTENDS Integers, Sequences, FiniteSets, TLC

\* ------------------------------------------------------------- bounds
\* Longest JSON array a script returns.
MaxArrayLen == 2
\* Most forwarding calls counted in one behaviour.
MaxCalls == 2
\* Most calls of the layer in one behaviour of the whole program.
MaxSteps == 4

\* ------------------------------------------------------- the universe
Sessions == {"s1", "s2"}
ElemIds == {"e1", "e2"}
\* The session whose remote end issued each element identifier: s1 serves a
\* page with two elements, s2 has issued no identifier.
IssuedBy(i) == "s1"

Unit == "()"
Strings == {"a", "b"}
\* Option<String>: None is <<>>, Some(s) is <<s>>.
None == <<>>
Some(s) == <<s>>
OptStrings == {None} \cup {Some(s) : s \in Strings}
unwrap_or_default(x) == IF x = None THEN "" ELSE x[1]

\* Result<T, E>
Ok(v) == [ok |-> TRUE, val |-> v]
Err(e) == [ok |-> FALSE, err |-> e]

\* fantoccini::error::CmdError, as the layer tells its values apart: the
\* NoSuchElement variant, and every other variant.
CmdErr(k, m) == [kind |-> k, msg |-> m]
CmdNoSuchElement == CmdErr("NoSuchElement", "no such element")
CmdStale == CmdErr("Standard", "stale element reference")
CmdLost == CmdErr("Lost", "connection lost")
CmdNoSession == CmdErr("Standard", "invalid session id")

\* crate::error::WebDriverError
WdCmdError(x) == [variant |-> "CmdError", inner |-> x]
WdNoSuchElement(s) == [variant |-> "NoSuchElement", msg |-> s]
WdNewSession(x) == [variant |-> "NewSessionError", inner |-> x]
WdJson == [variant |-> "Json"]

\* ---------------------------------------------------------------- JSON
\* serde_json::Value, by shape.
JNull == [t |-> "null", id |-> Unit, items |-> <<>>]
JNum == [t |-> "number", id |-> Unit, items |-> <<>>]
JStr == [t |-> "string", id |-> Unit, items |-> <<>>]
\* An object without the element key.
JObj == [t |-> "object", id |-> Unit, items |-> <<>>]
\* {"element-6066-11e4-a52e-4f735466cecf": id}
JElem(i) == [t |-> "element", id |-> i, items |-> <<>>]
JArr(xs) == [t |-> "array", id |-> Unit, items |-> xs]

JScalars == {JNull, JNum, JStr, JObj} \cup {JElem(i) : i \in ElemIds}
\* What a script returns inside an array: element references and null.
JItems == {JNull} \cup {JElem(i) : i \in ElemIds}
SeqsUpTo(S, n) == UNION {[1..k -> S] : k \in 0..n}
JValues == JScalars \cup {JArr(xs) : xs \in SeqsUpTo(JItems, MaxArrayLen)}
\* The values tried where one element is expected: every non-array shape,
\* the empty array and the arrays of one entry.
JSingles == JScalars \cup {JArr(<<>>)} \cup {JArr(<<x>>) : x \in JItems}

\* ---------------------------------------------------------------- state
VARIABLES
    sess,       \* remote state of each session
    driver,     \* whether a WebDriver value for the session is held
    elems,      \* the WebElement values held by the caller
    dom,        \* remote status of each element identifier
    last,       \* the last call of this layer: what it issued and returned
    fwdCalls,   \* forwarding calls made
    fwdCmds,    \* commands the forwarding calls issued
    quits,      \* quit calls made
    closes,     \* close commands issued by any call
    calls       \* calls of the layer made (whole-program specification)

vars == <<sess, driver, elems, dom, last, fwdCalls, fwdCmds, quits, closes, calls>>

\* ------------------------------------------------------------- values
\* SessionHandle: the client it wraps (Clone shares the client).
SessionHandle(s) == [client |-> s]
SessionHandle_clone(h) == h
\* fantoccini Element::from_element_id(client, id)
Element_from_element_id(c, i) == [client |-> c, id |-> i]
Client_clone(c) == c

\* A command handed to the underlying client.
Cmd(name, c, i, arg) == [name |-> name, client |-> c, id |-> i, arg |-> arg]
ElemCmd(el, name, arg) == Cmd(name, el.client, el.id, arg)

\* What one call of the layer did.
Did(cmds, result) == [cmds |-> cmds, result |-> result]

\* impl From<CmdError> for WebDriverError, used by `?`: the conversion
\* is_present relies on, NoSuchElement kept apart from the other errors.
From_CmdError(e) ==
    IF e.kind = "NoSuchElement"
    THEN WdNoSuchElement(e.msg)
    ELSE WdCmdError(e)
\* impl From<serde_json::Error> for WebDriverError
From_JsonError == WdJson

\* `expr?` on a Result<T, CmdError> inside a WebDriverResult function.
Try(r) == IF r.ok THEN Ok(r.val) ELSE Err(From_CmdError(r.err))

\* -------------------------------------------------------- WebElement
WebElement_new(element, handle) == [element |-> element, handle |-> handle]

\* serde_json::from_value::<ElementRefHelper>: the element key with a
\* string identifier.
ElementRefHelper_from_value(value) ==
    IF value.t = "element" THEN Ok(value.id) ELSE Err(From_JsonError)

\* Variant: from_json that insists the identifier was issued by the handle's session.
from_json_checked(value, handle) ==
    LET element_ref == ElementRefHelper_from_value(value)
    IN  IF ~element_ref.ok
        THEN Did(<<>>, Err(element_ref.err))
        ELSE IF IssuedBy(element_ref.val) # handle.client
        THEN Did(<<>>, Err(WdNoSuchElement(element_ref.val)))
        ELSE Did(<<>>, Ok([element |-> Element_from_element_id(
                                           Client_clone(handle.client), element_ref.val),
                           handle |-> handle]))

from_json(value, handle) ==
    LET element_ref == ElementRefHelper_from_value(value)
    IN  IF ~element_ref.ok
        THEN Did(<<>>, Err(element_ref.err))
        ELSE Did(<<>>, Ok([element |-> Element_from_element_id(
                                           Client_clone(handle.client), element_ref.val),
                           handle |-> handle]))

WebElement_clone(self) == Did(<<>>, Ok(self))

\* Variant: rect with width and height exchanged.
rect_swapped(self, r) ==
    Did(<<ElemCmd(self.element, "rectangle", Unit)>>,
        IF ~r.ok THEN Try(r)
        ELSE Ok([x |-> r.val[1], y |-> r.val[2], width |-> r.val[4], height |-> r.val[3]]))

rect(self, r) ==
    Did(<<ElemCmd(self.element, "rectangle", Unit)>>,
        IF ~r.ok THEN Try(r)
        ELSE Ok([x |-> r.val[1], y |-> r.val[2], width |-> r.val[3], height |-> r.val[4]]))

tag_name(self, r) == Did(<<ElemCmd(self.element, "tag_name", Unit)>>, Try(r))

\* Variant: text that consults the session's state before forwarding.
text_checked(self, r) ==
    IF sess[self.handle.client] # "open"
    THEN Did(<<>>, Err(WdCmdError(CmdNoSession)))
    ELSE Did(<<ElemCmd(self.element, "text", Unit)>>, Try(r))

text(self, r) == Did(<<ElemCmd(self.element, "text", Unit)>>, Try(r))

click(self, r) ==
    Did(<<ElemCmd(self.element, "click", Unit)>>, IF ~r.ok THEN Try(r) ELSE Ok(Unit))

clear(self, r) == Did(<<ElemCmd(self.element, "clear", Unit)>>, Try(r))

get_property(self, name, r) == Did(<<ElemCmd(self.element, "prop", name)>>, Try(r))

get_attribute(self, name, r) == Did(<<ElemCmd(self.element, "attr", name)>>, Try(r))

get_css_property(self, name, r) == Did(<<ElemCmd(self.element, "css_value", name)>>, Try(r))

is_selected(self, r) == Did(<<ElemCmd(self.element, "is_selected", Unit)>>, Try(r))

is_displayed(self, r) == Did(<<ElemCmd(self.element, "is_displayed", Unit)>>, Try(r))

is_enabled(self, r) == Did(<<ElemCmd(self.element, "is_enabled", Unit)>>, Try(r))

send_keys(self, keys, r) == Did(<<ElemCmd(self.element, "send_keys", keys)>>, Try(r))

screenshot_as_png(self, r) == Did(<<ElemCmd(self.element, "screenshot", Unit)>>, Try(r))

\* Variant: class_name read from the property instead of the attribute.
class_name_as_property(self, r) == get_property(self, "className", r)

class_name(self, r) == get_attribute(self, "class", r)

id(self, r) == get_attribute(self, "id", r)

value(self, r) == get_attribute(self, "value", r)

\* Variant: is_clickable that issues both queries before combining them.
is_clickable_eager(self, r1, r2) ==
    LET d == is_displayed(self, r1)
        e == is_enabled(self, r2)
    IN  IF ~d.result.ok THEN Did(d.cmds \o e.cmds, d.result)
        ELSE IF ~e.result.ok THEN Did(d.cmds \o e.cmds, e.result)
        ELSE Did(d.cmds \o e.cmds, Ok(d.result.val /\ e.result.val))

\* Ok(self.is_displayed().await? && self.is_enabled().await?)
is_clickable(self, r1, r2) ==
    LET d == is_displayed(self, r1)
    IN  IF ~d.result.ok THEN d
        ELSE IF ~d.result.val THEN Did(d.cmds, Ok(FALSE))
        ELSE LET e == is_enabled(self, r2)
             IN  IF ~e.result.ok THEN Did(d.cmds \o e.cmds, e.result)
                 ELSE Did(d.cmds \o e.cmds, Ok(e.result.val))

is_present(self, r) ==
    LET t == tag_name(self, r)
    IN  IF t.result.ok THEN Did(t.cmds, Ok(TRUE))
        ELSE IF t.result.err.variant = "NoSuchElement" THEN Did(t.cmds, Ok(FALSE))
        ELSE Did(t.cmds, Err(t.result.err))

inner_html(self, r) ==
    LET p == get_property(self, "innerHTML", r)
    IN  IF p.result.ok THEN Did(p.cmds, Ok(unwrap_or_default(p.result.val))) ELSE p

\* Variant: outer_html that reads innerHTML.
outer_html_as_inner(self, r) ==
    LET p == get_property(self, "innerHTML", r)
    IN  IF p.result.ok THEN Did(p.cmds, Ok(unwrap_or_default(p.result.val))) ELSE p

outer_html(self, r) ==
    LET p == get_property(self, "outerHTML", r)
    IN  IF p.result.ok THEN Did(p.cmds, Ok(unwrap_or_default(p.result.val))) ELSE p

\* crate::By, its locator() and its Display form: a string of its own
\* for each selector, none of them a message of the underlying client.
Bys == {[kind |-> "Id", value |-> "x"], [kind |-> "Css", value |-> "y"]}
By_locator(by) == [using |-> by.kind, value |-> by.value]
By_to_string(by) == IF by.kind = "Id" THEN "Id(x)" ELSE "Css(y)"

\* Variant: the search error converted as `?` alone would, without map_err.
find_map_err_plain(by, e) == From_CmdError(e)

\* The map_err closure of find_element / find_elements.
find_map_err(by, e) ==
    IF e.kind = "NoSuchElement"
    THEN WdNoSuchElement(By_to_string(by))
    ELSE WdCmdError(e)

\* r: the underlying find, Ok(id) of an Element on self.element's client.
\* Variant: find_element that pairs the found element with another session's handle.
find_element_other_handle(self, by, r) ==
    Did(<<ElemCmd(self.element, "find", By_locator(by))>>,
        IF ~r.ok THEN Err(find_map_err(by, r.err))
        ELSE Ok(WebElement_new(Element_from_element_id(self.element.client, r.val),
                               SessionHandle("s2"))))

find_element(self, by, r) ==
    Did(<<ElemCmd(self.element, "find", By_locator(by))>>,
        IF ~r.ok THEN Err(find_map_err(by, r.err))
        ELSE Ok(WebElement_new(Element_from_element_id(self.element.client, r.val),
                               SessionHandle_clone(self.handle))))

\* r: the underlying find_all, Ok(sequence of ids).
find_elements(self, by, r) ==
    Did(<<ElemCmd(self.element, "find_all", By_locator(by))>>,
        IF ~r.ok THEN Err(find_map_err(by, r.err))
        ELSE Ok([k \in 1..Len(r.val) |->
                    WebElement_new(Element_from_element_id(self.element.client, r.val[k]),
                                   SessionHandle_clone(self.handle))]))

to_json(self) == JElem(self.element.id)

\* ---------------------------------------------------------- ScriptRet
ScriptRet_new(handle, v) == [handle |-> handle, value |-> v]

\* Variant: get_element that accepts an array and takes its first entry.
get_element_first(self) ==
    IF self.value.t = "array" /\ Len(self.value.items) > 0
    THEN from_json(self.value.items[1], self.handle)
    ELSE from_json(self.value, self.handle)

get_element(self) == from_json(self.value, self.handle)

\* serde_json::from_value::<Vec<Value>>
Vec_from_value(v) == IF v.t = "array" THEN Ok(v.items) ELSE Err(From_JsonError)

\* Variant: collect that drops the entries that failed.
collect_lenient(rs) ==
    LET good == {k \in 1..Len(rs) : rs[k].ok}
        nth(n) == CHOOSE k \in good : Cardinality({j \in good : j < k}) = n - 1
    IN  Ok([n \in 1..Cardinality(good) |-> rs[nth(n)].val])

\* Iterator::collect into Result<Vec<_>, _>: the first Err, else all the values.
collect(rs) ==
    IF \E k \in 1..Len(rs) : ~rs[k].ok
    THEN rs[CHOOSE k \in 1..Len(rs) : ~rs[k].ok /\ \A j \in 1..(k - 1) : rs[j].ok]
    ELSE Ok([k \in 1..Len(rs) |-> rs[k].val])

get_elements(self) ==
    LET values == Vec_from_value(self.value)
    IN  IF ~values.ok THEN Did(<<>>, Err(values.err))
        ELSE LET handle == self.handle
             IN  Did(<<>>, collect([k \in 1..Len(values.val) |->
                              from_json(values.val[k], SessionHandle_clone(handle)).result]))

\* SessionHandle::execute_script: one command on the handle's client, its
\* value wrapped in a ScriptRet that carries a clone of the handle.
execute_script(handle, script, args, r) ==
    Did(<<Cmd("execute", handle.client, Unit, <<script, args>>)>>,
        IF ~r.ok THEN Try(r) ELSE Ok(ScriptRet_new(SessionHandle_clone(handle), r.val)))

get_shadow_root(self, r) ==
    LET ret == execute_script(self.handle, "return arguments[0].shadowRoot",
                              <<to_json(self)>>, r)
    IN  IF ~ret.result.ok THEN ret
        ELSE Did(ret.cmds, get_element(ret.result.val).result)

\* ---------------------------------------------------------- WebDriver
\* rc: ClientBuilder::connect, rt: update_timeouts, rh: SessionHandle::new.
WebDriver_new(s, rc, rt, rh) ==
    LET connect == Cmd("connect", s, Unit, Unit)
        timeouts == Cmd("update_timeouts", s, Unit, Unit)
    IN  IF ~rc.ok THEN Did(<<connect>>, Err(WdNewSession(rc.err)))
        ELSE IF ~rt.ok THEN Did(<<connect, timeouts>>, Try(rt))
        ELSE IF ~rh.ok THEN Did(<<connect, timeouts>>, Try(rh))
        ELSE Did(<<connect, timeouts>>, Ok([handle |-> SessionHandle(s)]))

\* Variant: quit that discards the outcome of close.
quit_ignoring_error(self, r) ==
    Did(<<Cmd("close", self.handle.client, Unit, Unit)>>, Ok(Unit))

quit(self, r) ==
    Did(<<Cmd("close", self.handle.client, Unit, Unit)>>,
        IF ~r.ok THEN Try(r) ELSE Ok(Unit))

\* WebDriver has no Drop: going out of scope issues nothing.
WebDriver_drop(self) == Did(<<>>, Ok(Unit))

\* ------------------------------------------------------- environment
\* How the remote end sees an element at the time of a command.
RemoteStatus(el) ==
    IF sess[el.client] # "open" THEN "nosession"
    ELSE IF IssuedBy(el.id) # el.client THEN "unknown"
    ELSE dom[el.id]

\* Success values of each underlying command.
ValuesOf(name, c) ==
    CASE name \in {"text", "tag_name", "css_value"} -> Strings
      [] name \in {"attr", "prop"} -> OptStrings
      [] name \in {"is_selected", "is_displayed", "is_enabled"} -> BOOLEAN
      [] name \in {"click", "clear", "send_keys", "none"} -> {Unit}
      [] name = "rectangle" -> {<<10, 20, 30, 40>>}
      [] name = "screenshot" -> {<<137, 80>>}
      [] name = "find" -> {i \in ElemIds : IssuedBy(i) = c}
      [] name = "find_all" -> SeqsUpTo({i \in ElemIds : IssuedBy(i) = c}, MaxArrayLen)
      [] name = "execute" -> JItems

\* The outcomes the underlying client can report for a command on el.
Responses(el, name) ==
    IF name = "none" THEN {Ok(Unit)}
    ELSE CASE RemoteStatus(el) = "nosession" -> {Err(CmdNoSession)}
           [] RemoteStatus(el) \in {"unknown", "gone"} -> {Err(CmdNoSuchElement)}
           [] RemoteStatus(el) = "stale" -> {Err(CmdStale)}
           [] RemoteStatus(el) = "attached" ->
                {Ok(v) : v \in ValuesOf(name, el.client)} \cup {Err(CmdLost)}
                \cup (IF name \in {"find", "find_all"} THEN {Err(CmdNoSuchElement)} ELSE {})

\* Session-level commands succeed or lose the connection.
SessionResponses == {Ok(Unit), Err(CmdLost)}

\* The sessions a SessionHandle exists for.
Handles == {SessionHandle(s) : s \in {x \in Sessions : sess[x] \in {"open", "closed"}}}

\* ------------------------------------------------------ call dispatch
ForwardOps ==
    {"text", "tag_name", "click", "clear", "get_property", "get_attribute",
     "get_css_property", "is_selected", "is_displayed", "is_enabled", "send_keys",
     "rect", "screenshot_as_png"}

\* <<method, argument, underlying command, second underlying command>>
OpArgs ==
    {<<"text", Unit, "text", "none">>, <<"tag_name", Unit, "tag_name", "none">>,
     <<"click", Unit, "click", "none">>, <<"clear", Unit, "clear", "none">>,
     <<"get_property", "innerHTML", "prop", "none">>,
     <<"get_attribute", "class", "attr", "none">>,
     <<"get_attribute", "id", "attr", "none">>,
     <<"get_attribute", "value", "attr", "none">>,
     <<"get_css_property", "color", "css_value", "none">>,
     <<"is_selected", Unit, "is_selected", "none">>,
     <<"is_displayed", Unit, "is_displayed", "none">>,
     <<"is_enabled", Unit, "is_enabled", "none">>,
     <<"send_keys", "k", "send_keys", "none">>,
     <<"rect", Unit, "rectangle", "none">>,
     <<"screenshot_as_png", Unit, "screenshot", "none">>,
     <<"class_name", Unit, "attr", "none">>, <<"id", Unit, "attr", "none">>,
     <<"value", Unit, "attr", "none">>,
     <<"is_clickable", Unit, "is_displayed", "is_enabled">>,
     <<"is_present", Unit, "tag_name", "none">>,
     <<"inner_html", Unit, "prop", "none">>, <<"outer_html", Unit, "prop", "none">>}

Method(op, self, arg, r1, r2) ==
    CASE op = "text" -> text(self, r1)
      [] op = "tag_name" -> tag_name(self, r1)
      [] op = "click" -> click(self, r1)
      [] op = "clear" -> clear(self, r1)
      [] op = "get_property" -> get_property(self, arg, r1)
      [] op = "get_attribute" -> get_attribute(self, arg, r1)
      [] op = "get_css_property" -> get_css_property(self, arg, r1)
      [] op = "is_selected" -> is_selected(self, r1)
      [] op = "is_displayed" -> is_displayed(self, r1)
      [] op = "is_enabled" -> is_enabled(self, r1)
      [] op = "send_keys" -> send_keys(self, arg, r1)
      [] op = "rect" -> rect(self, r1)
      [] op = "screenshot_as_png" -> screenshot_as_png(self, r1)
      [] op = "class_name" -> class_name(self, r1)
      [] op = "id" -> id(self, r1)
      [] op = "value" -> value(self, r1)
      [] op = "is_clickable" -> is_clickable(self, r1, r2)
      [] op = "is_present" -> is_present(self, r1)
      [] op = "inner_html" -> inner_html(self, r1)
      [] op = "outer_html" -> outer_html(self, r1)

\* ------------------------------------------------------------ actions
Idle == [op |-> "none", self |-> Unit, arg |-> Unit, status |-> Unit,
         resp |-> <<>>, cmds |-> <<>>, result |-> Ok(Unit)]

CountCloses(cmds) == Cardinality({k \in 1..Len(cmds) : cmds[k].name = "close"})

\* Bookkeeping common to every call: the call record and the counters.
Called(op, self, arg, status, resp, d) ==
    /\ last' = [op |-> op, self |-> self, arg |-> arg, status |-> status,
                resp |-> resp, cmds |-> d.cmds, result |-> d.result]
    /\ closes' = closes + CountCloses(d.cmds)
    /\ quits' = IF op = "quit" THEN quits + 1 ELSE quits

New ==
    \E s \in Sessions, rc \in SessionResponses, rt \in SessionResponses,
       rh \in SessionResponses :
        /\ sess[s] = "unopened"
        /\ LET d == WebDriver_new(s, rc, rt, rh)
           IN  /\ Called("new", s, Unit, Unit,
                         IF ~rc.ok THEN <<rc>> ELSE IF ~rt.ok THEN <<rc, rt>>
                                                ELSE <<rc, rt, rh>>, d)
               /\ sess' = [sess EXCEPT ![s] = IF d.result.ok THEN "open"
                                              ELSE IF rc.ok THEN "orphan"
                                              ELSE "unopened"]
               /\ driver' = [driver EXCEPT ![s] = d.result.ok]
        /\ UNCHANGED <<elems, dom>>

Quit ==
    \E s \in Sessions, r \in SessionResponses :
        /\ driver[s]
        /\ LET self == [handle |-> SessionHandle(s)]
               d == quit(self, r)
           IN  /\ Called("quit", self, Unit, Unit, <<r>>, d)
               /\ sess' = [sess EXCEPT ![s] =
                             IF \E k \in 1..Len(d.cmds) : d.cmds[k].name = "close" /\ r.ok
                             THEN "closed" ELSE @]
        /\ driver' = [driver EXCEPT ![s] = FALSE]
        /\ UNCHANGED <<elems, dom>>

\* A WebDriver value goes out of scope.
DropDriver ==
    \E s \in Sessions :
        /\ driver[s]
        /\ LET self == [handle |-> SessionHandle(s)]
               d == WebDriver_drop(self)
           IN  /\ Called("drop", self, Unit, Unit, <<>>, d)
               /\ sess' = [sess EXCEPT ![s] =
                             IF \E k \in 1..Len(d.cmds) : d.cmds[k].name = "close"
                             THEN "closed" ELSE @]
        /\ driver' = [driver EXCEPT ![s] = FALSE]
        /\ UNCHANGED <<elems, dom>>

FromJson ==
    \E handle \in Handles, v \in JSingles :
        LET d == from_json(v, handle)
        IN  /\ Called("from_json", handle, v, Unit, <<>>, d)
            /\ elems' = IF d.result.ok THEN elems \cup {d.result.val} ELSE elems
            /\ UNCHANGED <<sess, driver, dom>>

ScriptGetElement ==
    \E handle \in Handles, v \in JSingles :
        LET self == ScriptRet_new(handle, v)
            d == get_element(self)
        IN  /\ Called("get_element", self, Unit, Unit, <<>>, d)
            /\ elems' = IF d.result.ok THEN elems \cup {d.result.val} ELSE elems
            /\ UNCHANGED <<sess, driver, dom>>

ScriptGetElements ==
    \E handle \in Handles, v \in JValues :
        LET self == ScriptRet_new(handle, v)
            d == get_elements(self)
        IN  /\ Called("get_elements", self, Unit, Unit, <<>>, d)
            /\ elems' = IF d.result.ok
                        THEN elems \cup {d.result.val[k] : k \in 1..Len(d.result.val)}
                        ELSE elems
            /\ UNCHANGED <<sess, driver, dom>>

GetShadowRoot ==
    \E self \in elems :
        \E r \in Responses(self.element, "execute") :
            LET d == get_shadow_root(self, r)
            IN  /\ Called("get_shadow_root", self, Unit, RemoteStatus(self.element), <<r>>, d)
                /\ elems' = IF d.result.ok THEN elems \cup {d.result.val} ELSE elems
                /\ UNCHANGED <<sess, driver, dom>>

FindElement ==
    \E self \in elems, by \in Bys :
        \E r \in Responses(self.element, "find") :
            LET d == find_element(self, by, r)
            IN  /\ Called("find_element", self, by, RemoteStatus(self.element), <<r>>, d)
                /\ elems' = IF d.result.ok THEN elems \cup {d.result.val} ELSE elems
                /\ UNCHANGED <<sess, driver, dom>>

FindElements ==
    \E self \in elems, by \in Bys :
        \E r \in Responses(self.element, "find_all") :
            LET d == find_elements(self, by, r)
            IN  /\ Called("find_elements", self, by, RemoteStatus(self.element), <<r>>, d)
                /\ elems' = IF d.result.ok
                            THEN elems \cup {d.result.val[k] : k \in 1..Len(d.result.val)}
                            ELSE elems
                /\ UNCHANGED <<sess, driver, dom>>

Clone ==
    \E self \in elems :
        LET d == WebElement_clone(self)
        IN  /\ Called("clone", self, Unit, Unit, <<>>, d)
            /\ elems' = elems \cup {d.result.val}
            /\ UNCHANGED <<sess, driver, dom>>

ElementCall ==
    \E self \in elems, oa \in OpArgs :
        \E r1 \in Responses(self.element, oa[3]), r2 \in Responses(self.element, oa[4]) :
            LET d == Method(oa[1], self, oa[2], r1, r2)
            IN  /\ Called(oa[1], self, oa[2], RemoteStatus(self.element),
                          SubSeq(<<r1, r2>>, 1, Len(d.cmds)), d)
                /\ UNCHANGED <<sess, driver, elems, dom>>

\* The page changes under the caller: its elements detach (stale), are
\* forgotten by the remote end (gone), or the page is rendered again.
PageChange ==
    \E st \in {"attached", "stale", "gone"} :
        /\ dom # [i \in ElemIds |-> st]
        /\ dom' = [i \in ElemIds |-> st]
        /\ UNCHANGED <<sess, driver, elems, last, quits, closes>>

\* ----------------------------------------------------- specifications
Zero ==
    /\ last = Idle
    /\ fwdCalls = 0 /\ fwdCmds = 0 /\ quits = 0 /\ closes = 0 /\ calls = 0
    /\ dom = [i \in ElemIds |-> "attached"]

\* The whole program, from nothing: no session, no value held.
Init ==
    /\ Zero
    /\ sess = [s \in Sessions |-> "unopened"]
    /\ driver = [s \in Sessions |-> FALSE]
    /\ elems = {}

\* One more call of the layer, while the budget of calls lasts.
Step == calls < MaxSteps /\ calls' = calls + 1 /\ UNCHANGED <<fwdCalls, fwdCmds>>

Next ==
    \/ Step /\ New
    \/ Step /\ Quit
    \/ Step /\ DropDriver
    \/ Step /\ FromJson
    \/ Step /\ ScriptGetElement
    \/ Step /\ ScriptGetElements
    \/ Step /\ GetShadowRoot
    \/ Step /\ FindElement
    \/ Step /\ FindElements
    \/ Step /\ Clone
    \/ Step /\ ElementCall
    \/ PageChange /\ UNCHANGED <<calls, fwdCalls, fwdCmds>>

Spec == Init /\ [][Next]_vars

\* Both sessions opened by WebDriver::new, the drivers held.
InitOpen ==
    /\ Zero
    /\ sess = [s \in Sessions |-> "open"]
    /\ driver = [s \in Sessions |-> TRUE]
    /\ elems = {}

\* ... and one WebElement held for every identifier and session.
InitHeld ==
    /\ Zero
    /\ sess = [s \in Sessions |-> "open"]
    /\ driver = [s \in Sessions |-> TRUE]
    /\ elems = {from_json(JElem(i), SessionHandle(s)).result.val :
                    i \in ElemIds, s \in Sessions}

\* The element methods on held elements, while the page changes.
\* The forwarding calls are tallied with the commands they issue, while
\* the tally lasts.
Tally ==
    /\ last'.op \in ForwardOps => fwdCalls < MaxCalls
    /\ fwdCalls' = IF last'.op \in ForwardOps THEN fwdCalls + 1 ELSE fwdCalls
    /\ fwdCmds' = IF last'.op \in ForwardOps THEN fwdCmds + Len(last'.cmds) ELSE fwdCmds

ElementNext ==
    \/ ElementCall /\ Tally /\ UNCHANGED calls
    \/ PageChange /\ UNCHANGED <<calls, fwdCalls, fwdCmds>>

ElementSpec == InitHeld /\ [][ElementNext]_vars

\* The operations that produce WebElements.
DeriveNext ==
    \/ FromJson /\ UNCHANGED <<calls, fwdCalls, fwdCmds>>
    \/ ScriptGetElement /\ UNCHANGED <<calls, fwdCalls, fwdCmds>>
    \/ ScriptGetElements /\ UNCHANGED <<calls, fwdCalls, fwdCmds>>
    \/ GetShadowRoot /\ UNCHANGED <<calls, fwdCalls, fwdCmds>>
    \/ FindElement /\ UNCHANGED <<calls, fwdCalls, fwdCmds>>
    \/ FindElements /\ UNCHANGED <<calls, fwdCalls, fwdCmds>>
    \/ Clone /\ UNCHANGED <<calls, fwdCalls, fwdCmds>>
    \/ PageChange /\ UNCHANGED <<calls, fwdCalls, fwdCmds>>

DeriveSpec == InitOpen /\ [][DeriveNext]_vars

\* --------------------------------------------------------------- claims
SameResult(a, b) == a.ok = b.ok /\ (IF a.ok THEN a.val = b.val ELSE a.err = b.err)
CmdNames(cmds) == [k \in 1..Len(cmds) |-> cmds[k].name]
\* x is the WebElement `from` (a WebElement or a ScriptRet) yields: same
\* handle, and the element's client is that handle's session.
PairedLike(x, from) ==
    /\ x.handle = from.handle
    /\ x.element.client = from.handle.client

\* C1: every WebElement that find_element, find_elements, get_shadow_root,
\* clone, ScriptRet::get_element or ScriptRet::get_elements produces carries
\* the handle of the value it was derived from, and the client inside its
\* element is that handle's session; so every WebElement held pairs its
\* element's client with its own handle's session.
C1_SameSession ==
    /\ \A e \in elems : e.element.client = e.handle.client
    /\ (last.op \in {"find_element", "get_shadow_root", "clone", "get_element"}
            /\ last.result.ok)
        => PairedLike(last.result.val, last.self)
    /\ (last.op \in {"find_elements", "get_elements"} /\ last.result.ok)
        => \A k \in 1..Len(last.result.val) : PairedLike(last.result.val[k], last.self)

\* A search in the first session returned two elements while an element of
\* the second session is held too.
C1_Witness ==
    /\ last.op = "find_elements" /\ last.result.ok /\ Len(last.result.val) = 2
    /\ \E e \in elems : e.handle.client # last.self.handle.client

\* C2: close commands are issued by quit alone, one per quit; quit returns
\* Ok(()) exactly when that close succeeded and the close error otherwise;
\* a session is closed only after a quit.
C2_CloseOnlyByQuit ==
    /\ closes = quits
    /\ last.op # "quit" => CountCloses(last.cmds) = 0
    /\ last.op = "quit" =>
        /\ last.cmds = <<Cmd("close", last.self.handle.client, Unit, Unit)>>
        /\ last.result.ok = last.resp[1].ok
        /\ last.result.ok => last.result.val = Unit
        /\ ~last.result.ok => last.result.err = WdCmdError(last.resp[1].err)
    /\ \A s \in Sessions : sess[s] = "closed" => quits > 0

\* One driver went out of scope, its session still open; another quit
\* and closed its session.
C2_Witness ==
    /\ last.op = "quit" /\ last.result.ok /\ closes = 1
    /\ \E s \in Sessions : sess[s] = "open" /\ ~driver[s]
    /\ \E s \in Sessions : sess[s] = "closed"

\* C3: is_present issues one tag-name query and returns Ok(true) when the
\* element is present, Ok(false) when it is stale or no longer present, and
\* Err only for other errors.
C3_IsPresent ==
    last.op = "is_present" =>
        /\ CmdNames(last.cmds) = <<"tag_name">>
        /\ last.resp[1].ok => last.result = Ok(TRUE)
        /\ last.status \in {"stale", "gone", "unknown"} => last.result = Ok(FALSE)
        /\ (~last.resp[1].ok /\ last.status \in {"attached", "nosession"})
            => ~last.result.ok

\* C4: is_clickable queries is_displayed first; an error there, or
\* "not displayed", ends the call without an is_enabled query; otherwise it
\* queries is_enabled and returns its value or its error.  So Ok(true)
\* exactly when displayed and enabled.
C4_IsClickable ==
    last.op = "is_clickable" =>
        /\ Len(last.cmds) = Len(last.resp)
        /\ last.cmds[1] = ElemCmd(last.self.element, "is_displayed", Unit)
        /\ ~last.resp[1].ok =>
            /\ Len(last.cmds) = 1
            /\ ~last.result.ok /\ last.result.err = From_CmdError(last.resp[1].err)
        /\ (last.resp[1].ok /\ ~last.resp[1].val) =>
            /\ Len(last.cmds) = 1
            /\ last.result = Ok(FALSE)
        /\ (last.resp[1].ok /\ last.resp[1].val) =>
            /\ Len(last.cmds) = 2
            /\ last.cmds[2] = ElemCmd(last.self.element, "is_enabled", Unit)
            /\ last.resp[2].ok => last.result = Ok(last.resp[2].val)
            /\ ~last.resp[2].ok =>
                ~last.result.ok /\ last.result.err = From_CmdError(last.resp[2].err)

\* The element is displayed and the is_enabled query fails.
C4_Witness ==
    /\ last.op = "is_clickable" /\ Len(last.cmds) = 2
    /\ last.resp[1] = Ok(TRUE) /\ ~last.resp[2].ok /\ ~last.result.ok

\* The underlying command each forwarding method issues.
UnderlyingOf(op) ==
    CASE op = "rect" -> "rectangle"
      [] op = "get_property" -> "prop"
      [] op = "get_attribute" -> "attr"
      [] op = "get_css_property" -> "css_value"
      [] op = "screenshot_as_png" -> "screenshot"
      [] OTHER -> op

\* C5: each forwarding method issues exactly one command, on its own
\* element, returns the underlying success value unchanged (rect as x, y,
\* width, height in the order received) and Err when the command fails;
\* n forwarding calls issue n commands.
C5_Forwarding ==
    /\ fwdCmds = fwdCalls
    /\ last.op \in ForwardOps =>
        /\ last.cmds = <<ElemCmd(last.self.element, UnderlyingOf(last.op), last.arg)>>
        /\ Len(last.resp) = 1
        /\ last.resp[1].ok =>
            /\ last.result.ok
            /\ IF last.op = "rect"
               THEN last.result.val = [x |-> last.resp[1].val[1], y |-> last.resp[1].val[2],
                                       width |-> last.resp[1].val[3],
                                       height |-> last.resp[1].val[4]]
               ELSE last.result.val = last.resp[1].val
        /\ ~last.resp[1].ok =>
            ~last.result.ok /\ last.result.err = From_CmdError(last.resp[1].err)

\* A second forwarding call, a rect that succeeded.
C5_Witness ==
    /\ fwdCalls >= 2 /\ fwdCmds >= 2
    /\ last.op = "rect" /\ last.result.ok

\* C6: get_element returns Ok(element) with the returned identifier when
\* the value is one element reference, and Err for anything else.
C6_GetElement ==
    last.op = "get_element" =>
        /\ last.cmds = <<>>
        /\ IF last.self.value.t = "element"
           THEN last.result.ok /\ last.result.val.element.id = last.self.value.id
           ELSE ~last.result.ok

\* The script returned an array of element references.
C6_Witness ==
    /\ last.op = "get_element" /\ ~last.result.ok
    /\ last.self.value.t = "array" /\ Len(last.self.value.items) > 0
    /\ \A k \in 1..Len(last.self.value.items) : last.self.value.items[k].t = "element"

\* C7: get_elements returns one WebElement per entry, in order, for an
\* array of element references, and Err when the value is not an array
\* or any entry is not an element reference.
C7_GetElements ==
    last.op = "get_elements" =>
        /\ last.cmds = <<>>
        /\ IF /\ last.self.value.t = "array"
              /\ \A k \in 1..Len(last.self.value.items) :
                    last.self.value.items[k].t = "element"
           THEN /\ last.result.ok
                /\ Len(last.result.val) = Len(last.self.value.items)
                /\ \A k \in 1..Len(last.result.val) :
                      last.result.val[k].element.id = last.self.value.items[k].id
           ELSE ~last.result.ok

\* An array whose second entry is not an element reference.
C7_Witness ==
    /\ last.op = "get_elements" /\ ~last.result.ok
    /\ last.self.value.t = "array" /\ Len(last.self.value.items) = 2
    /\ last.self.value.items[1].t = "element"
    /\ last.self.value.items[2].t # "element"

\* C8: inner_html and outer_html query the innerHTML and outerHTML property
\* once; Some(v) gives Ok(v), None gives Ok(""), a failed query gives Err.
C8_Html ==
    last.op \in {"inner_html", "outer_html"} =>
        /\ last.cmds = <<ElemCmd(last.self.element, "prop",
                                 IF last.op = "inner_html" THEN "innerHTML"
                                                           ELSE "outerHTML")>>
        /\ (last.resp[1].ok /\ last.resp[1].val # None)
            => last.result = Ok(last.resp[1].val[1])
        /\ (last.resp[1].ok /\ last.resp[1].val = None) => last.result = Ok("")
        /\ ~last.resp[1].ok =>
            ~last.result.ok /\ last.result.err = From_CmdError(last.resp[1].err)

\* outer_html of an element without the property.
C8_Witness ==
    /\ last.op = "outer_html" /\ last.resp[1] = Ok(None) /\ last.result = Ok("")

\* C9: class_name, id and value issue the command and return the result
\* that get_attribute("class"), get_attribute("id") and
\* get_attribute("value") do for the same element and response.
C9_AttributeShorthands ==
    last.op \in {"class_name", "id", "value"} =>
        LET name == CASE last.op = "class_name" -> "class"
                      [] last.op = "id" -> "id"
                      [] last.op = "value" -> "value"
            g == get_attribute(last.self, name, last.resp[1])
        IN  /\ last.cmds = g.cmds
            /\ SameResult(last.result, g.result)
            /\ last.cmds = <<ElemCmd(last.self.element, "attr", name)>>

\* value() of an element without the attribute.
C9_Witness ==
    /\ last.op = "value" /\ last.result = Ok(None)

\* C10: from_json issues no command and checks no session: it returns Ok
\* for every element reference with any handle, pairing the identifier
\* with that handle, and Err for every other value.
C10_FromJsonUnchecked ==
    last.op = "from_json" =>
        /\ last.cmds = <<>>
        /\ last.result.ok = (last.arg.t = "element")
        /\ last.result.ok =>
            last.result.val = [element |-> [client |-> last.self.client, id |-> last.arg.id],
                               handle |-> last.self]

\* An identifier of the first session accepted with the second session's handle.
C10_Witness ==
    /\ last.op = "from_json" /\ last.result.ok
    /\ IssuedBy(last.result.val.element.id) # last.result.val.handle.client

\* C11: find_element and find_elements turn an underlying NoSuchElement
\* error into WebDriverError::NoSuchElement carrying the string form of the
\* selector searched (not the underlying message), return every other
\* underlying error unchanged inside WebDriverError::CmdError, and on
\* success find_elements returns one WebElement per underlying element, in
\* the same order.
C11_FindErrors ==
    last.op \in {"find_element", "find_elements"} =>
        /\ last.cmds = <<ElemCmd(last.self.element,
                                 IF last.op = "find_element" THEN "find" ELSE "find_all",
                                 By_locator(last.arg))>>
        /\ last.result.ok = last.resp[1].ok
        /\ (~last.resp[1].ok /\ last.resp[1].err.kind = "NoSuchElement") =>
            /\ last.result.err = WdNoSuchElement(By_to_string(last.arg))
            /\ last.result.err.msg # last.resp[1].err.msg
        /\ (~last.resp[1].ok /\ last.resp[1].err.kind # "NoSuchElement") =>
            last.result.err = WdCmdError(last.resp[1].err)
        /\ (last.resp[1].ok /\ last.op = "find_element") =>
            last.result.val.element.id = last.resp[1].val
        /\ (last.resp[1].ok /\ last.op = "find_elements") =>
            /\ Len(last.result.val) = Len(last.resp[1].val)
            /\ \A k \in 1..Len(last.result.val) :
                  last.result.val[k].element.id = last.resp[1].val[k]

\* A search by CSS selector under an attached element finds nothing.
C11_Witness ==
    /\ last.op = "find_element" /\ last.status = "attached"
    /\ ~last.resp[1].ok /\ last.resp[1].err.kind = "NoSuchElement"
    /\ last.arg.kind = "Css"
    /\ last.result = Err(WdNoSuchElement("Css(y)"))

\* The methods called on a WebElement that reach the session.
ElementOps ==
    {oa[1] : oa \in OpArgs} \cup {"find_element", "find_elements", "get_shadow_root"}

\* The last call was made on a WebElement whose session a quit has closed.
CalledAfterQuit ==
    /\ last.op \in ElementOps
    /\ sess[last.self.handle.client] = "closed"

\* C12: quit consumes the WebDriver value alone: the WebElements obtained
\* before it remain, each with its own handle on the session, and a call on
\* one of them after quit is still forwarded as one command to the closed
\* session, the call returning the error the underlying client reports.
C12_CallsAfterQuit ==
    /\ [](CalledAfterQuit =>
            /\ last.self \in elems
            /\ last.status = "nosession"
            /\ Len(last.cmds) = 1
            /\ last.cmds[1].client = last.self.handle.client
            /\ Len(last.resp) = 1 /\ ~last.resp[1].ok
            /\ last.result = Err(WdCmdError(last.resp[1].err)))
    /\ [][quits' # quits =>
            /\ elems' = elems
            /\ ~driver'[last'.self.handle.client]]_vars

\* After a successful quit, text is called on an element obtained before it.
C12_Witness ==
    /\ CalledAfterQuit /\ last.op = "text"
    /\ quits = 1 /\ closes = 1
    /\ ~driver[last.self.handle.client]
    /\ last.cmds = <<ElemCmd(last.self.element, "text", Unit)>>
    /\ last.result = Err(WdCmdError(CmdNoSession))

====
